---------------------------- MODULE Spec2Model ----------------------------
(***************************************************************************)
(* The Sudoku class of mchccn/sudoku (src/unnamed/part_000, lines 120-453;  *)
(* src/src/index.ts is an earlier revision of the same class).              *)
(*                                                                         *)
(* A board is the private field #board: a 9x9 array indexed board[y][x],    *)
(* modelled as a function [0..8 -> [0..8 -> Int]].  JavaScript lists that   *)
(* the code builds (candidate lists, undo logs, the solution list) are      *)
(* TLA+ sequences.  Sudoku objects live on a heap, because solve() and      *)
(* clone() construct new objects from the board of another one and the      *)
(* constructor decides whether the two share their cells.                   *)
(***************************************************************************)
EXTENDS Integers, Sequences, FiniteSets

(***************************************************************************)
(* Program constants.                                                      *)
(***************************************************************************)
N == 9
B == 3

Idx == 0 .. (N - 1)

(***************************************************************************)
(* Bounds of the exploration.                                              *)
(***************************************************************************)
\* A set/delete call is explored only while the caller's grid differs from
\* the constructed one in at most MaxEdits cells and has at most MaxEdits
\* empty cells.
MaxEdits == 4

(***************************************************************************)
(* Grids that occur in the source.                                         *)
(***************************************************************************)
Matrix(rows) == [y \in Idx |-> [x \in Idx |-> rows[y + 1][x + 1]]]

\* part_000:105-115, the solved grid
SolvedGrid ==
    Matrix(<< <<5,3,4,6,7,8,9,1,2>>,
              <<6,7,2,1,9,5,3,4,8>>,
              <<1,9,8,3,4,2,5,6,7>>,
              <<8,5,9,7,6,1,4,2,3>>,
              <<4,2,6,8,5,3,7,9,1>>,
              <<7,1,3,9,2,4,8,5,6>>,
              <<9,6,1,5,3,7,2,8,4>>,
              <<2,8,7,4,1,9,6,3,5>>,
              <<3,4,5,2,8,6,1,7,9>> >>)

\* index.ts:163-173, the puzzle the script solves
IndexPuzzle ==
    Matrix(<< <<1,0,0,0,6,0,0,0,0>>,
              <<9,8,0,0,0,0,6,0,5>>,
              <<0,0,0,0,0,5,0,0,1>>,
              <<0,0,0,0,0,0,3,0,4>>,
              <<0,6,0,0,0,0,9,0,0>>,
              <<0,4,0,7,2,0,0,0,0>>,
              <<0,9,3,0,7,6,1,0,0>>,
              <<0,0,6,4,8,0,0,0,7>>,
              <<5,0,0,9,0,2,4,6,0>> >>)

(***************************************************************************)
(* Module-level helpers (part_000:125-127).                                *)
(***************************************************************************)
\* list.includes(v) on a 0-indexed array
includes(list, v) == \E p \in DOMAIN list : list[p] = v

transpose(matrix) == [i \in Idx |-> [r \in Idx |-> matrix[r][i]]]

\* new Set(list.filter(Boolean)).size === list.filter(Boolean).length
isUnique(list) ==
    Cardinality({list[p] : p \in {q \in DOMAIN list : list[q] # 0}})
        = Cardinality({q \in DOMAIN list : list[q] # 0})

\* arrays.reduce((a, b) => a.filter((x) => !b.includes(x))): the first list
\* filtered by each of the others in turn
RECURSIVE differenceFrom(_, _, _)
differenceFrom(a, arrays, k) ==
    IF k > Len(arrays) THEN a
    ELSE differenceFrom(SelectSeq(a, LAMBDA v : ~includes(arrays[k], v)),
                        arrays, k + 1)

\* Mutant of difference: "difference(a, b)", only the first of the other
\* lists taken away.
differenceFirst(arrays) == differenceFrom(arrays[1], SubSeq(arrays, 1, 2), 2)

difference(arrays) == differenceFrom(arrays[1], arrays, 2)

(***************************************************************************)
(* Views of a board (part_000:154-166).                                    *)
(***************************************************************************)
rows(b) == [i \in Idx |-> [j \in Idx |-> b[i][j]]]

columns(b) == transpose(b)

squares(b) ==
    [k \in Idx |->
        [p \in Idx |-> b[(k \div B) * B + (p \div B)][(k % B) * B + (p % B)]]]

\* Mutant of okay: the row check left out.
okayNoRows(b) ==
    /\ \A j \in Idx : isUnique(columns(b)[j])
    /\ \A k \in Idx : isUnique(squares(b)[k])

okay(b) ==
    /\ \A i \in Idx : isUnique(rows(b)[i])
    /\ \A j \in Idx : isUnique(columns(b)[j])
    /\ \A k \in Idx : isUnique(squares(b)[k])

solved(b) == okay(b) /\ \A y \in Idx : \A x \in Idx : b[y][x] # 0

(***************************************************************************)
(* Accessors (part_000:180-189, 314-332).  A call either throws, which is  *)
(* the error field, or completes; the board field is the board after the   *)
(* call and the value field what the call returns.                         *)
(***************************************************************************)
NoError == "none"
OutOfBounds == "RangeError: position out of bounds"
ValueError == "RangeError: value must be 0-9"
Undefined == "undefined"

outside(x, y) == x < 0 \/ x > 8 \/ y < 0 \/ y > 8

OneToNine == [p \in 1 .. N |-> p]

\* Mutant of candidates: the filter on the 3x3 box left out.
candidatesNoBox(b, x, y) ==
    IF outside(x, y) THEN [error |-> OutOfBounds, board |-> b, value |-> Undefined]
    ELSE IF b[y][x] # 0 THEN [error |-> NoError, board |-> b, value |-> << >>]
    ELSE [error |-> NoError, board |-> b,
          value |->
              SelectSeq(
                SelectSeq(OneToNine, LAMBDA v : ~includes(rows(b)[y], v)),
                LAMBDA v : ~includes(columns(b)[x], v))]

\* Mutant of candidates: without "if (this.#board[y][x]) return []", as in
\* the first revision of the class (part_000:48-55).
candidatesNoGuard(b, x, y) ==
    IF outside(x, y) THEN [error |-> OutOfBounds, board |-> b, value |-> Undefined]
    ELSE [error |-> NoError, board |-> b,
          value |->
            SelectSeq(
              SelectSeq(
                SelectSeq(OneToNine, LAMBDA v : ~includes(rows(b)[y], v)),
                LAMBDA v : ~includes(columns(b)[x], v)),
              LAMBDA v : ~includes(squares(b)[(y \div B) * B + (x \div B)], v))]

candidates(b, x, y) ==
    IF outside(x, y) THEN [error |-> OutOfBounds, board |-> b, value |-> Undefined]
    ELSE IF b[y][x] # 0 THEN [error |-> NoError, board |-> b, value |-> << >>]
    ELSE [error |-> NoError, board |-> b,
          value |->
            SelectSeq(
              SelectSeq(
                SelectSeq(OneToNine, LAMBDA v : ~includes(rows(b)[y], v)),
                LAMBDA v : ~includes(columns(b)[x], v)),
              LAMBDA v : ~includes(squares(b)[(y \div B) * B + (x \div B)], v))]

\* Mutant of set: the value checked before the position.
setValueFirst(b, x, y, value) ==
    IF value < 0 \/ value > 9
    THEN [error |-> ValueError, board |-> b, value |-> Undefined]
    ELSE IF outside(x, y)
         THEN [error |-> OutOfBounds, board |-> b, value |-> Undefined]
    ELSE [error |-> NoError, board |-> [b EXCEPT ![y][x] = value],
          value |-> Undefined]

set(b, x, y, value) ==
    IF outside(x, y) THEN [error |-> OutOfBounds, board |-> b, value |-> Undefined]
    ELSE IF value < 0 \/ value > 9
         THEN [error |-> ValueError, board |-> b, value |-> Undefined]
    ELSE [error |-> NoError, board |-> [b EXCEPT ![y][x] = value],
          value |-> Undefined]

get(b, x, y) ==
    IF outside(x, y) THEN [error |-> OutOfBounds, board |-> b, value |-> Undefined]
    ELSE [error |-> NoError, board |-> b, value |-> b[y][x]]

delete(b, x, y) ==
    IF outside(x, y) THEN [error |-> OutOfBounds, board |-> b, value |-> Undefined]
    ELSE [error |-> NoError, board |-> [b EXCEPT ![y][x] = 0], value |-> Undefined]

\* Mutant of nextOpenCell: the row index taken from the columns
\* ("this.#columns.findIndex"), so that the row it names may hold no 0.
nextOpenCellColumns(b) ==
    LET open == {j \in Idx : includes(columns(b)[j], 0)}
        y == IF open = {} THEN -1
             ELSE CHOOSE j \in open : \A j2 \in open : j <= j2
        zeros == IF y >= 0 THEN {j \in Idx : rows(b)[y][j] = 0} ELSE {}
        x == IF zeros = {} THEN -1
             ELSE CHOOSE j \in zeros : \A j2 \in zeros : j <= j2
    IN  << x, y >>

\* #nextOpenCell (part_000:334-339): [x, y] of the first 0 in row-major
\* order, [-1, -1] when there is none
nextOpenCell(b) ==
    LET open == {i \in Idx : includes(rows(b)[i], 0)}
        y == IF open = {} THEN -1
             ELSE CHOOSE i \in open : \A i2 \in open : i <= i2
        x == IF y >= 0
             THEN CHOOSE j \in Idx :
                    /\ rows(b)[y][j] = 0
                    /\ \A j2 \in Idx : rows(b)[y][j2] = 0 => j <= j2
             ELSE -1
    IN  << x, y >>

(***************************************************************************)
(* The four deduction rules (part_000:232-312).  A rule works on the board *)
(* it is called on and returns the coordinates it filled; here its result  *)
(* is the record of the board after the rule, the returned list and the    *)
(* error of the first internal call that threw, which ends the rule.       *)
(***************************************************************************)
Ok(b, m) == [board |-> b, modified |-> m, error |-> NoError]

Thrown(st, e) == [st EXCEPT !.error = e]

\* for (let j = x + 1; j < 9; j++) { ... } in row i
RECURSIVE rule1Row(_, _, _)
rule1Row(st, i, j) ==
    IF st.error # NoError \/ j >= 9 THEN st
    ELSE LET c == candidates(st.board, j, i)
         IN  IF c.error # NoError THEN Thrown(st, c.error)
             ELSE IF Len(c.value) # 1 THEN rule1Row(st, i, j + 1)
             ELSE LET s == set(st.board, j, i, c.value[1])
                  IN  IF s.error # NoError THEN Thrown(st, s.error)
                      ELSE rule1Row(Ok(s.board, Append(st.modified, << j, i >>)),
                                    i, j + 1)

\* for (let i = y; i < 9; i++) for (let j = x + 1; j < 9; j++) { ... }
RECURSIVE rule1Loop(_, _, _)
rule1Loop(st, x, i) ==
    IF st.error # NoError \/ i >= 9 THEN st
    ELSE rule1Loop(rule1Row(st, i, x + 1), x, i + 1)

\* Mutant of rule1: "if (candidates.length < 1) continue", which fills every
\* scanned cell that has a candidate with its first one.
RECURSIVE rule1GuessRow(_, _, _)
rule1GuessRow(st, i, j) ==
    IF st.error # NoError \/ j >= 9 THEN st
    ELSE LET c == candidates(st.board, j, i)
         IN  IF c.error # NoError THEN Thrown(st, c.error)
             ELSE IF Len(c.value) < 1 THEN rule1GuessRow(st, i, j + 1)
             ELSE LET s == set(st.board, j, i, c.value[1])
                  IN  IF s.error # NoError THEN Thrown(st, s.error)
                      ELSE rule1GuessRow(Ok(s.board, Append(st.modified, << j, i >>)),
                                         i, j + 1)

RECURSIVE rule1GuessLoop(_, _, _)
rule1GuessLoop(st, x, i) ==
    IF st.error # NoError \/ i >= 9 THEN st
    ELSE rule1GuessLoop(rule1GuessRow(st, i, x + 1), x, i + 1)

rule1Guess(b, x, y) == rule1GuessLoop(Ok(b, << >>), x, y)

rule1(b, x, y) == rule1Loop(Ok(b, << >>), x, y)

\* A nine-element array as a sequence: element p of the array is element
\* p + 1 of the sequence.
Arr9(f) == << f[0], f[1], f[2], f[3], f[4], f[5], f[6], f[7], f[8] >>

\* allowed.filter((_, j) => j !== i)
othersOf(allowed, p) ==
    SubSeq(allowed, 1, p) \o SubSeq(allowed, p + 2, Len(allowed))

\* diffs.forEach((diff, p) => { if (diff.length === 1) { set; push } })
RECURSIVE writeDiffs(_, _, _, _)
writeDiffs(st, cells, diffs, p) ==
    IF st.error # NoError \/ p >= 9 THEN st
    ELSE IF Len(diffs[p + 1]) # 1 THEN writeDiffs(st, cells, diffs, p + 1)
    ELSE LET s == set(st.board, cells[p + 1][1], cells[p + 1][2], diffs[p + 1][1])
         IN  IF s.error # NoError THEN Thrown(st, s.error)
             ELSE writeDiffs(Ok(s.board, Append(st.modified, cells[p + 1])),
                             cells, diffs, p + 1)

\* The body shared by rules 2, 3 and 4 for one group, whose nine cells are
\* cells[1..9] as [x, y] pairs: the candidates of every cell are taken
\* first, then the differences, then the writes.
fillGroup(st, cells) ==
    LET called == Arr9([p \in Idx |->
                          candidates(st.board, cells[p + 1][1], cells[p + 1][2])])
        failed == {p \in 1 .. N : called[p].error # NoError}
        allowed == Arr9([p \in Idx |-> called[p + 1].value])
        diffs == Arr9([p \in Idx |->
                         difference(<< allowed[p + 1] >> \o othersOf(allowed, p))])
    IN  IF failed # {}
        THEN Thrown(st, called[CHOOSE p \in failed : \A q \in failed : p <= q].error)
        ELSE writeDiffs(st, cells, diffs, 0)

\* for (let i = y; i < 9; i++): the cells of row i are (j, i), j = 0..8
RECURSIVE rule2Loop(_, _)
rule2Loop(st, i) ==
    IF st.error # NoError \/ i >= 9 THEN st
    ELSE rule2Loop(fillGroup(st, Arr9([j \in Idx |-> << j, i >>])), i + 1)

rule2(b, x, y) == rule2Loop(Ok(b, << >>), y)

\* for (let j = x; j < 9; j++): the cells of column j are (j, i), i = 0..8
RECURSIVE rule3Loop(_, _)
rule3Loop(st, j) ==
    IF st.error # NoError \/ j >= 9 THEN st
    ELSE rule3Loop(fillGroup(st, Arr9([i \in Idx |-> << j, i >>])), j + 1)

rule3(b, x, y) == rule3Loop(Ok(b, << >>), x)

\* [0, 1, 2, 9, 10, 11, 18, 19, 20].map((v) => v + 3 * k + 18 * (k / 3 | 0))
BoxOffsets == << 0, 1, 2, 9, 10, 11, 18, 19, 20 >>

\* Mutant of indicesOf: 18 * k for 18 * (k / 3 | 0).
indicesOfNoFloor(k) == [p \in 1 .. N |-> BoxOffsets[p] + 3 * k + 18 * k]

indicesOf(k) == [p \in 1 .. N |-> BoxOffsets[p] + 3 * k + 18 * (k \div 3)]

\* for (let k = index; k < 9; k++): the cells are (indices[p] % 9, indices[p] / 9 | 0)
RECURSIVE rule4Loop(_, _)
rule4Loop(st, k) ==
    IF st.error # NoError \/ k >= 9 THEN st
    ELSE rule4Loop(
           fillGroup(st, Arr9([p \in Idx |-> << indicesOf(k)[p + 1] % 9,
                                                indicesOf(k)[p + 1] \div 9 >>])),
           k + 1)

rule4(b, x, y) == rule4Loop(Ok(b, << >>), (y \div 3) * 3 + (x \div 3))

(***************************************************************************)
(* Construction from the board of an existing object (part_000:133-148,    *)
(* the number[][] branch): board.map((row) => [...row]) gives the new      *)
(* object cells of its own.  heap[r] is the #board of object r; the result *)
(* is the heap after the construction and the reference of the new object. *)
(***************************************************************************)
\* Mutant of newSudoku: the given rows kept as they are, as in the first
\* revision of the constructor (part_000:15): the new object shares its
\* cells with the one it was made from.
newSudokuShared(h, r) == [heap |-> h, ref |-> r]

newSudoku(h, r) == [heap |-> Append(h, h[r]), ref |-> Len(h) + 1]

\* Mutant of clone: "return this".
cloneSelf(h, r) == [heap |-> h, ref |-> r]

\* get board() (part_000:150-152)
board(b) == rows(b)

\* clone() (part_000:341-343)
clone(h, r) == newSudoku(h, r)

(***************************************************************************)
(* Construction from an argument (part_000:133-148): a string is parsed    *)
(* into rows of numbers, an array of arrays is copied row by row; then the *)
(* shape and the cell values are checked.  A string is a TLA+ string, an   *)
(* array of arrays a sequence of sequences.                                *)
(***************************************************************************)
TypeError9x9 == "TypeError: board should be 9x9"
CellError == "RangeError: cell values must be 0-9"

DigitChars == "0123456789"

NewLine == "\n"

charAt(text, i) == SubSeq(text, i, i)

isDigit(ch) == \E d \in 1 .. Len(DigitChars) : charAt(DigitChars, d) = ch

\* Number(ch) for a digit character
Number(ch) == (CHOOSE d \in 1 .. Len(DigitChars) : charAt(DigitChars, d) = ch) - 1

\* .replace(/ /g, "0"), on the characters of the text
spacesToZero(chars) == [i \in DOMAIN chars |-> IF chars[i] = " " THEN "0" ELSE chars[i]]

\* .replace(/[^0-9\n]/g, "")
digitsAndNewlines(chars) == SelectSeq(chars, LAMBDA ch : isDigit(ch) \/ ch = NewLine)

\* .trim(): what is left holds digits and newlines only, so the white space
\* at its ends is newlines
trim(chars) ==
    LET kept == {i \in DOMAIN chars : chars[i] # NewLine}
    IN  IF kept = {} THEN << >>
        ELSE SubSeq(chars,
                    CHOOSE i \in kept : \A k \in kept : i <= k,
                    CHOOSE i \in kept : \A k \in kept : i >= k)

\* .split("\n"): the pieces between the newlines; the empty text gives one
\* empty piece
split(chars) ==
    LET at == {i \in DOMAIN chars : chars[i] = NewLine}
        nth(n) == IF n = 0 THEN 0
                  ELSE IF n > Cardinality(at) THEN Len(chars) + 1
                  ELSE CHOOSE i \in at : Cardinality({k \in at : k < i}) = n - 1
    IN  [n \in 1 .. Cardinality(at) + 1 |-> SubSeq(chars, nth(n - 1) + 1, nth(n) - 1)]

\* lines 135-138: the rows of numbers a string is parsed into
fromString(text) ==
    LET chars == [i \in 1 .. Len(text) |-> charAt(text, i)]
        lines == split(trim(digitsAndNewlines(spacesToZero(chars))))
    IN  [n \in DOMAIN lines |-> [c \in DOMAIN lines[n] |-> Number(lines[n][c])]]

\* Mutant of checked: the cell values checked before the shape.
checkedValuesFirst(given) ==
    IF \E r \in DOMAIN given : \E c \in DOMAIN given[r] : given[r][c] < 0 \/ given[r][c] > 9
    THEN [error |-> CellError, board |-> << >>]
    ELSE IF Len(given) # 9 \/ \E r \in DOMAIN given : Len(given[r]) # 9
    THEN [error |-> TypeError9x9, board |-> << >>]
    ELSE [error |-> NoError, board |-> Matrix(given)]

\* lines 141-145: the checks of the shape and of the cell values
checked(given) ==
    IF Len(given) # 9 \/ \E r \in DOMAIN given : Len(given[r]) # 9
    THEN [error |-> TypeError9x9, board |-> << >>]
    ELSE IF \E r \in DOMAIN given : \E c \in DOMAIN given[r] : given[r][c] < 0 \/ given[r][c] > 9
    THEN [error |-> CellError, board |-> << >>]
    ELSE [error |-> NoError, board |-> Matrix(given)]

\* new Sudoku(board): board is [type |-> "string" or "array", value |-> ...]
constructor(arg) ==
    checked(IF arg.type = "string" THEN fromString(arg.value) ELSE arg.value)

(***************************************************************************)
(* State.                                                                  *)
(***************************************************************************)
VARIABLES
    heap,       \* heap[r]: the #board of Sudoku object r; object 1 is the caller's
    original,   \* the #original of object 1, set by its constructor
    err,        \* what the last call of the caller threw, NoError if nothing
    ret,        \* what the last call of the caller returned
    pc,         \* "idle", or the place solve() has reached
    work,       \* solve's local board: the reference of the working object
    solutions,  \* solve's local solutions: references, in the order pushed
    stack,      \* the frames of the backtrack calls that are in a forEach
    input,      \* history: the caller's board when solve() was called
    cursor      \* the editor's x and y (part_000:385-386)

vars == << heap, original, err, ret, pc, work, solutions, stack, input, cursor >>

This == 1
\* What a call returned, as its type and a sequence: empty for undefined,
\* the number alone for a number, the elements for an array.
NoValue == [type |-> "undefined", value |-> << >>]
Returned(type, value) ==
    [type |-> type,
     value |-> IF type = "undefined" THEN << >>
               ELSE IF type = "number" THEN << value >>
               ELSE value]
NoRef == 0
NoBoard == << >>
\* let x = 0; let y = 0;
Origin == [x |-> 0, y |-> 0]

\* The arguments the caller's calls are explored with.
CellInputs ==
    { << 5, 3 >>, << 8, 3 >>, << 5, 4 >>, << 8, 4 >>,
      << -1, 3 >>, << 9, 4 >>, << 5, -1 >>, << 8, 9 >> }
ValueInputs == {-1, 0, 1, 3, 10}

Puzzles == {SolvedGrid, IndexPuzzle}

Init ==
    /\ heap \in {<< g >> : g \in Puzzles}
    /\ original = heap[This]
    /\ err = NoError
    /\ ret = NoValue
    /\ pc = "idle"
    /\ work = NoRef
    /\ solutions = << >>
    /\ stack = << >>
    /\ input = NoBoard
    /\ cursor = Origin

Cells == Idx \X Idx

\* The bound on the grids the caller's edits are explored to.
WithinEdits(b) ==
    /\ Cardinality({c \in Cells : b[c[2]][c[1]] # original[c[2]][c[1]]}) <= MaxEdits
    /\ Cardinality({c \in Cells : b[c[2]][c[1]] = 0}) <= MaxEdits

\* A call of the caller on its own object, with the outcome r of the method
\* and the type of what the method returns.
Called(r, type) ==
    /\ pc = "idle"
    /\ err' = r.error
    /\ ret' = IF r.error = NoError THEN Returned(type, r.value) ELSE NoValue
    /\ heap' = [heap EXCEPT ![This] = r.board]
    /\ r.board = heap[This] \/ WithinEdits(r.board)
    /\ UNCHANGED << original, pc, work, solutions, stack, input, cursor >>

CallSet(x, y, value) == Called(set(heap[This], x, y, value), "undefined")

CallGet(x, y) == Called(get(heap[This], x, y), "number")

CallDelete(x, y) == Called(delete(heap[This], x, y), "undefined")

CallCandidates(x, y) == Called(candidates(heap[This], x, y), "array")

(***************************************************************************)
(* solve() (part_000:191-230).                                             *)
(***************************************************************************)
\* lines 191-195: the guard, the working object, the empty solution list,
\* and the call of backtrack
SolveCall ==
    /\ pc = "idle"
    /\ input' = heap[This]
    /\ err' = NoError
    /\ IF ~okay(heap[This])
       THEN /\ ret' = NoValue
            /\ pc' = "done"
            /\ UNCHANGED << heap, work, solutions, stack >>
       ELSE LET made == newSudoku(heap, This)
            IN  /\ heap' = made.heap
                /\ work' = made.ref
                /\ solutions' = << >>
                /\ stack' = << >>
                /\ pc' = "backtrack"
                /\ ret' = NoValue
    /\ UNCHANGED << original, cursor >>

\* Where a backtrack call that returns goes on: the undo step of the caller's
\* trial (line 225), or line 229 of solve for the outermost call.
AfterReturn(stk) == IF stk = << >> THEN "return" ELSE "undo"

\* lines 205-213: the guards of a backtrack call, the open cell and its
\* candidates; the frame holds the forEach loop.  before and atCall are
\* history: the working board when the current trial began and when it
\* called backtrack.
Backtrack ==
    /\ pc = "backtrack"
    /\ LET b == heap[work]
           xy == nextOpenCell(b)
           c == candidates(b, xy[1], xy[2])
       IN  IF ~okay(b)
           THEN /\ pc' = AfterReturn(stack)
                /\ UNCHANGED << heap, solutions, stack, err >>
           ELSE IF solved(b)
           THEN LET made == clone(heap, work)
                IN  /\ heap' = made.heap
                    /\ solutions' = Append(solutions, made.ref)
                    /\ pc' = AfterReturn(stack)
                    /\ UNCHANGED << stack, err >>
           ELSE IF xy[1] = -1 \/ xy[2] = -1
           THEN /\ pc' = AfterReturn(stack)
                /\ UNCHANGED << heap, solutions, stack, err >>
           ELSE IF c.error # NoError
           THEN /\ err' = c.error
                /\ pc' = "done"
                /\ UNCHANGED << heap, solutions, stack >>
           ELSE /\ stack' = Append(stack, [x |-> xy[1], y |-> xy[2],
                                           cands |-> c.value, k |-> 1,
                                           modified |-> << >>,
                                           before |-> NoBoard, atCall |-> NoBoard])
                /\ pc' = "forEach"
                /\ UNCHANGED << heap, solutions, err >>
    /\ UNCHANGED << original, ret, work, input, cursor >>

Top == stack[Len(stack)]

\* The first of the outcomes that threw, NoError if none did.
RECURSIVE firstError(_, _)
firstError(outcomes, k) ==
    IF k > Len(outcomes) THEN NoError
    ELSE IF outcomes[k].error # NoError THEN outcomes[k].error
    ELSE firstError(outcomes, k + 1)

\* Mutant of trial: the rules alone, without "board.set(x, y, candidate)".
trialWithoutSet(b, x, y, candidate) ==
    LET r1 == rule1(b, x, y)
        r2 == rule2(r1.board, x, y)
        r3 == rule3(r2.board, x, y)
        r4 == rule4(r3.board, x, y)
        e  == firstError(<< r1, r2, r3, r4 >>, 1)
    IN  IF e # NoError THEN [board |-> b, modified |-> << >>, error |-> e]
        ELSE [board |-> r4.board,
              modified |-> << << x, y >> >> \o r1.modified \o r2.modified
                              \o r3.modified \o r4.modified,
              error |-> NoError]

\* lines 214-221: the undo log, rules 1 to 4 and the assignment of the
\* candidate to the open cell (x, y); each rule runs on the board the one
\* before it left.
trial(b, x, y, candidate) ==
    LET r1 == rule1(b, x, y)
        r2 == rule2(r1.board, x, y)
        r3 == rule3(r2.board, x, y)
        r4 == rule4(r3.board, x, y)
        s  == set(r4.board, x, y, candidate)
        e  == firstError(<< r1, r2, r3, r4, s >>, 1)
    IN  IF e # NoError THEN [board |-> b, modified |-> << >>, error |-> e]
        ELSE [board |-> s.board,
              modified |-> << << x, y >> >> \o r1.modified \o r2.modified
                              \o r3.modified \o r4.modified,
              error |-> NoError]

\* One callback of the forEach up to its call of backtrack (lines 214-223).
Trial ==
    /\ pc = "forEach"
    /\ Top.k <= Len(Top.cands)
    /\ LET t == trial(heap[work], Top.x, Top.y, Top.cands[Top.k])
       IN  IF t.error # NoError
           THEN /\ err' = t.error
                /\ pc' = "done"
                /\ UNCHANGED << heap, stack >>
           ELSE /\ heap' = [heap EXCEPT ![work] = t.board]
                /\ stack' = [stack EXCEPT ![Len(stack)] =
                               [@ EXCEPT !.modified = t.modified,
                                         !.before = heap[work],
                                         !.atCall = t.board]]
                /\ pc' = "backtrack"
                /\ UNCHANGED err
    /\ UNCHANGED << original, ret, work, solutions, input, cursor >>

\* Mutant of undo: the log without its first entry, the open cell itself
\* ("const modified = []").
RECURSIVE undoRest(_, _, _)
undoRest(st, modified, k) ==
    IF st.error # NoError \/ k > Len(modified) THEN st
    ELSE LET d == delete(st.board, modified[k][1], modified[k][2])
         IN  IF d.error # NoError THEN Thrown(st, d.error)
             ELSE undoRest(Ok(d.board, st.modified), modified, k + 1)

undoWithoutPivot(st, modified, k) == undoRest(st, modified, k + 1)

\* modified.forEach(([x, y]) => board.delete(x, y))
RECURSIVE undo(_, _, _)
undo(st, modified, k) ==
    IF st.error # NoError \/ k > Len(modified) THEN st
    ELSE LET d == delete(st.board, modified[k][1], modified[k][2])
         IN  IF d.error # NoError THEN Thrown(st, d.error)
             ELSE undo(Ok(d.board, st.modified), modified, k + 1)

\* line 225, after the backtrack call of a trial has returned; the forEach
\* then goes to its next candidate.
Undo ==
    /\ pc = "undo"
    /\ LET u == undo(Ok(heap[work], << >>), Top.modified, 1)
       IN  IF u.error # NoError
           THEN /\ err' = u.error
                /\ pc' = "done"
                /\ UNCHANGED << heap, stack >>
           ELSE /\ heap' = [heap EXCEPT ![work] = u.board]
                /\ stack' = [stack EXCEPT ![Len(stack)].k = @ + 1]
                /\ pc' = "forEach"
                /\ UNCHANGED err
    /\ UNCHANGED << original, ret, work, solutions, input, cursor >>

\* The forEach of a backtrack call has no candidate left: the call returns.
ForEachEnd ==
    /\ pc = "forEach"
    /\ Top.k > Len(Top.cands)
    /\ stack' = SubSeq(stack, 1, Len(stack) - 1)
    /\ pc' = AfterReturn(stack')
    /\ UNCHANGED << heap, original, err, ret, work, solutions, input, cursor >>

\* line 229: return solutions.length ? solutions : undefined
SolveReturn ==
    /\ pc = "return"
    /\ ret' = IF Len(solutions) # 0 THEN Returned("array", solutions) ELSE NoValue
    /\ pc' = "done"
    /\ UNCHANGED << heap, original, err, work, solutions, stack, input, cursor >>

Next ==
    \/ \E c \in CellInputs, value \in ValueInputs : CallSet(c[1], c[2], value)
    \/ \E c \in CellInputs : CallGet(c[1], c[2])
    \/ \E c \in CellInputs : CallDelete(c[1], c[2])
    \/ \E c \in CellInputs : CallCandidates(c[1], c[2])
    \/ SolveCall
    \/ Backtrack
    \/ Trial
    \/ Undo
    \/ ForEachEnd
    \/ SolveReturn

Spec == Init /\ [][Next]_vars

\* solve() runs synchronously (part_000:191-230): from its call to its
\* return or throw the program does nothing else, and the step it is at is
\* taken.  While solve() runs, the only steps are Backtrack, Trial, Undo,
\* ForEachEnd and SolveReturn, one of them is possible, and each of them
\* changes pc; so the fairness is stated on pc, as the step that takes
\* solve() from where it is to another place.  The calls of the caller's
\* own code (pc = "idle") are under no such obligation.
Running == pc \in {"backtrack", "forEach", "undo", "return"}

SolveStep == Running /\ pc' \in {"backtrack", "forEach", "undo", "return", "done"}

SpecFair == Spec /\ WF_pc(SolveStep)

(***************************************************************************)
(* The construction of the caller's board (part_000:375-379), from a file's *)
(* text or from an array of arrays; what the constructor throws ends the    *)
(* program (lines 450-453).                                                 *)
(***************************************************************************)
Array(given) == [type |-> "array", value |-> given]

String(text) == [type |-> "string", value |-> text]

\* The number[][] that holds the cells of a board.
RowsOf(b) == [r \in 1 .. N |-> [c \in 1 .. N |-> b[r - 1][c - 1]]]

\* The arrays the constructor is explored with: the solved grid, with one
\* cell replaced, with a row or a cell too few or too many, and with both a
\* wrong shape and a wrong value.
MatrixInputs ==
    LET base == RowsOf(SolvedGrid)
    IN  {base}
            \cup {[base EXCEPT ![r][c] = v] : r \in 1 .. N, c \in 1 .. N, v \in {0, 9}}
            \cup {[base EXCEPT ![r][c] = v] : r \in {1, 9}, c \in {1, 9}, v \in {-1, 10}}
            \cup {SubSeq(base, 1, 8), Append(base, base[1])}
            \cup {[base EXCEPT ![r] = SubSeq(@, 1, 8)] : r \in 1 .. N}
            \cup {[base EXCEPT ![r] = Append(@, 1)] : r \in 1 .. N}
            \cup {[base EXCEPT ![r] = << 10 >> \o SubSeq(@, 1, 7)] : r \in {1, 9}}
            \cup {SubSeq([base EXCEPT ![1][1] = -1], 1, 8)}

\* README.md:20-30, the example of the format
ReadmeText ==
    "1abc6defg\n98!@#$6 5\n[]{}|5  1\n      3 4\n 6 13 9  \n 4 72    \n 93 761  \n  648   7\n5  9 246 "

\* The same puzzle with a space for every character that is not a digit.
PlainText ==
    "1   6    \n98    6 5\n     5  1\n      3 4\n 6 13 9  \n 4 72    \n 93 761  \n  648   7\n5  9 246 "

substitute(text, i, ch) == SubSeq(text, 1, i - 1) \o ch \o SubSeq(text, i + 1, Len(text))

\* The texts the constructor is explored with: the two above, the second
\* with a newline before or after it, and with one character replaced.
TextInputs ==
    {ReadmeText, PlainText, PlainText \o NewLine, NewLine \o PlainText}
        \cup {substitute(PlainText, i, ch) : i \in 1 .. Len(PlainText), ch \in {"x", "7"}}

InitNew ==
    /\ heap = << >>
    /\ original = NoBoard
    /\ err = NoError
    /\ ret = NoValue
    /\ pc = "new"
    /\ work = NoRef
    /\ solutions = << >>
    /\ stack = << >>
    /\ input = NoBoard
    /\ cursor = Origin

\* new Sudoku(arg) at line 377 or 379
New(arg) ==
    /\ pc = "new"
    /\ LET made == constructor(arg)
       IN  /\ err' = made.error
           /\ IF made.error # NoError
              THEN /\ pc' = "done"
                   /\ UNCHANGED << heap, original >>
              ELSE /\ heap' = << made.board >>
                   /\ original' = made.board
                   /\ pc' = "idle"
    /\ UNCHANGED << ret, work, solutions, stack, input, cursor >>

NextNew ==
    \/ \E given \in MatrixInputs : New(Array(given))
    \/ \E text \in TextInputs : New(String(text))

SpecNew == InitNew /\ [][NextNew]_vars

(***************************************************************************)
(* The interactive editor (part_000:378-434): a grid of zeros, the cursor  *)
(* at x = 0, y = 0, and the keypress handler; the line event closes the    *)
(* editor and gives the board to the program, which then calls solve().    *)
(***************************************************************************)
\* Array(9).fill(0).map(() => Array(9).fill(0))
EmptyGrid == [i \in Idx |-> [j \in Idx |-> 0]]

Keys == {"left", "right", "up", "down", "number", "space", "backspace"}

\* +input.rl.line.at(-1).trim() || 0 for the number keys explored; for the
\* space key it is 0.
TypedValues == {0, 9}

\* The cells a number other than 0 is typed in: the corners and the centre.
TypedCells == { << 0, 0 >>, << 8, 0 >>, << 4, 4 >>, << 0, 8 >>, << 8, 8 >> }

Moved(x, y) == [x |-> x, y |-> y]

\* line 410: if (x > 0) x--; else if (x <= 0 && y > 0) (x = 8, y--);
left(x, y) ==
    IF x > 0 THEN Moved(x - 1, y)
    ELSE IF x <= 0 /\ y > 0 THEN Moved(8, y - 1)
    ELSE Moved(x, y)

\* line 411: if (x < 8) x++; else if (x >= 8 && y < 8) (x = 0, y++);
right(x, y) ==
    IF x < 8 THEN Moved(x + 1, y)
    ELSE IF x >= 8 /\ y < 8 THEN Moved(0, y + 1)
    ELSE Moved(x, y)

\* Mutant of afterSet: without "if (x > 8) x = 8".
afterSetNoClamp(x, y) ==
    IF x > 8 /\ y < 8 THEN Moved(0, y + 1) ELSE Moved(x, y)

\* lines 418-419, x being the cursor's x after x++
afterSet(x, y) ==
    IF x > 8 /\ y < 8 THEN Moved(0, y + 1)
    ELSE IF x > 8 THEN Moved(8, y)
    ELSE Moved(x, y)

\* lines 425-426, x being the cursor's x after x--
afterDelete(x, y) ==
    IF x < 0 /\ y > 0 THEN Moved(8, y - 1)
    ELSE IF x < 0 THEN Moved(0, y)
    ELSE Moved(x, y)

\* The handler (lines 407-432) for one key, from the cursor (x, y) and the
\* board b: the cursor and the board it leaves and what it throws.  An
\* exception of set or delete leaves the handler with x already changed.
keypress(b, x, y, key, typed) ==
    CASE key = "left" -> [error |-> NoError, board |-> b, cursor |-> left(x, y)]
      [] key = "right" -> [error |-> NoError, board |-> b, cursor |-> right(x, y)]
      [] key = "up" ->
            [error |-> NoError, board |-> b,
             cursor |-> IF y > 0 THEN Moved(x, y - 1) ELSE Moved(x, y)]
      [] key = "down" ->
            [error |-> NoError, board |-> b,
             cursor |-> IF y < 8 THEN Moved(x, y + 1) ELSE Moved(x, y)]
      [] key \in {"number", "space"} ->
            LET s == set(b, x, y, IF key = "space" THEN 0 ELSE typed)
            IN  IF s.error # NoError
                THEN [error |-> s.error, board |-> b, cursor |-> Moved(x + 1, y)]
                ELSE [error |-> NoError, board |-> s.board,
                      cursor |-> afterSet(x + 1, y)]
      [] key = "backspace" ->
            LET d == delete(b, x, y)
            IN  IF d.error # NoError
                THEN [error |-> d.error, board |-> b, cursor |-> Moved(x - 1, y)]
                ELSE [error |-> NoError, board |-> d.board,
                      cursor |-> afterDelete(x - 1, y)]

InitEdit ==
    /\ heap = << EmptyGrid >>
    /\ original = EmptyGrid
    /\ err = NoError
    /\ ret = NoValue
    /\ pc = "edit"
    /\ work = NoRef
    /\ solutions = << >>
    /\ stack = << >>
    /\ input = NoBoard
    /\ cursor = Origin

\* input.on("keypress", ...)
KeyPress(key, typed) ==
    /\ pc = "edit"
    /\ LET k == keypress(heap[This], cursor.x, cursor.y, key, typed)
       IN  /\ \A c \in Cells : k.board[c[2]][c[1]] # 0 => c \in TypedCells
           /\ heap' = [heap EXCEPT ![This] = k.board]
           /\ cursor' = k.cursor
           /\ err' = k.error
           /\ pc' = IF k.error # NoError THEN "done" ELSE "edit"
    /\ UNCHANGED << original, ret, work, solutions, stack, input >>

\* input.on("line", done): the editor is closed and the board resolved
Line ==
    /\ pc = "edit"
    /\ pc' = "idle"
    /\ UNCHANGED << heap, original, err, ret, work, solutions, stack, input, cursor >>

NextEdit ==
    \/ \E key \in Keys, typed \in TypedValues : KeyPress(key, typed)
    \/ Line

SpecEdit == InitEdit /\ [][NextEdit]_vars

(***************************************************************************)
(* What the properties are stated with: Sudoku's placement rules, written  *)
(* over cells [x, y] and independently of the views of the class.          *)
(***************************************************************************)
At(g, c) == g[c[2]][c[1]]

SameGroup(c, d) ==
    /\ c # d
    /\ \/ c[1] = d[1]
       \/ c[2] = d[2]
       \/ c[1] \div 3 = d[1] \div 3 /\ c[2] \div 3 = d[2] \div 3

PeersOf == [c \in Cells |-> {d \in Cells : SameGroup(c, d)}]

\* No row, column or box holds a nonzero value twice.
Valid(g) ==
    \A c \in Cells : At(g, c) # 0 => \A d \in PeersOf[c] : At(g, d) # At(g, c)

Complete(g) == \A c \in Cells : At(g, c) # 0

\* g equals clues on every nonzero cell of clues.
Agrees(g, clues) == \A c \in Cells : At(clues, c) # 0 => At(g, c) = At(clues, c)

\* The values that occur in no peer of c.
Legal(g, c) == {v \in 1 .. 9 : \A d \in PeersOf[c] : At(g, d) # v}

\* Every complete valid grid that agrees with the valid grid g: an empty
\* cell with the fewest legal values is given each of them in turn.
RECURSIVE Fill(_)
Fill(g) ==
    LET open == {<< Cardinality(Legal(g, c)), c >> : c \in {d \in Cells : At(g, d) = 0}}
    IN  IF open = {} THEN {g}
        ELSE LET least == CHOOSE p \in open : \A q \in open : p[1] <= q[1]
             IN  UNION {Fill([g EXCEPT ![least[2][2]][least[2][1]] = v]) :
                            v \in Legal(g, least[2])}

Completions(g) == IF Valid(g) THEN Fill(g) ELSE {}

\* solve() has returned or thrown.
Done == pc = "done"

\* The grids solve() has returned.
ReturnedGrids ==
    IF Done /\ ret.type = "array"
    THEN {heap[ret.value[k]] : k \in 1 .. Len(ret.value)}
    ELSE {}

(***************************************************************************)
(* C1: completeness of solve().  When solve() has returned for a valid     *)
(* input grid, every complete valid grid that agrees with the input on its *)
(* nonzero cells is among the returned grids.                              *)
(***************************************************************************)
C1_Completeness ==
    Done /\ Valid(input) => \A g \in Completions(input) : g \in ReturnedGrids

\* solve() has returned for an input that has several completions
C1_Witness ==
    /\ Done
    /\ Valid(input)
    /\ Cardinality(Completions(input)) >= 2
    /\ Cardinality(ReturnedGrids) >= 2

(***************************************************************************)
(* C2: every grid solve() returns is solved: it has no empty cell and each *)
(* of its 9 rows, 9 columns and 9 boxes holds exactly the values 1..9.     *)
(***************************************************************************)
Groups ==
    {{c \in Cells : c[2] = i} : i \in Idx}
        \cup {{c \in Cells : c[1] = j} : j \in Idx}
        \cup {{c \in Cells : (c[2] \div 3) * 3 + (c[1] \div 3) = k} : k \in Idx}

IsSolvedGrid(g) ==
    /\ Complete(g)
    /\ \A G \in Groups : {At(g, c) : c \in G} = 1 .. 9

C2_ReturnedSolved == \A g \in ReturnedGrids : IsSolvedGrid(g)

\* solve() has returned grids for an input that had empty cells
C2_Witness == Done /\ ReturnedGrids # {} /\ ~Complete(input)

(***************************************************************************)
(* C3: throughout solve(), every cell that is nonzero in the input keeps   *)
(* its input value in the working grid, and every returned grid agrees     *)
(* with the input on those cells.                                          *)
(***************************************************************************)
C3_CluesKept ==
    /\ pc \in {"backtrack", "forEach", "undo", "return"} => Agrees(heap[work], input)
    /\ Done => \A g \in ReturnedGrids : Agrees(g, input)

\* a nested trial that filled cells by rule has returned and is to be undone
C3_Witness ==
    /\ pc = "undo"
    /\ Len(stack) >= 2
    /\ Len(Top.modified) >= 3
    /\ \E c \in Cells : At(input, c) # 0

(***************************************************************************)
(* C4: solve() does not change the caller's grid: from the call on, also   *)
(* after it has returned solutions or undefined, board() and get() of the  *)
(* caller's object give the values they gave when solve() was called.      *)
(***************************************************************************)
C4_CallerGridKept ==
    input # NoBoard =>
        /\ board(heap[This]) = input
        /\ \A c \in Cells : get(heap[This], c[1], c[2]).value = At(input, c)

\* solve() has returned solutions and the caller's grid still has its empty cells
C4_Witness ==
    /\ Done
    /\ ret.type = "array"
    /\ ~Complete(heap[This])
    /\ heap[work] = heap[This]

(***************************************************************************)
(* C5: the mutate/undo discipline.  After the undo step of a trial every   *)
(* cell of its undo log is 0 and the working grid is what it was just      *)
(* before the trial; when a backtrack call has returned the working grid   *)
(* is what it was when the call was made.                                  *)
(***************************************************************************)
C5_UndoRestores ==
    /\ pc = "forEach" /\ Top.k > 1 =>
          /\ heap[work] = Top.before
          /\ \A m \in 1 .. Len(Top.modified) : At(heap[work], Top.modified[m]) = 0
    /\ pc = "undo" => heap[work] = Top.atCall
    /\ pc = "return" => heap[work] = input

\* the trial of a nested backtrack call, which filled cells by rule, was undone
C5_Witness ==
    /\ pc = "forEach"
    /\ Top.k > 1
    /\ Len(stack) >= 2
    /\ Len(Top.modified) >= 3
    /\ Top.atCall # Top.before

(***************************************************************************)
(* C6: solve() raises no error, and it returns undefined when the input is *)
(* invalid and when the input is valid but has no completion.              *)
(***************************************************************************)
C6_AbsentNotError ==
    /\ pc # "idle" => err = NoError
    /\ Done /\ (~Valid(input) \/ Fill(input) = {}) => ret = NoValue

\* solve() has returned undefined for a valid input that has no completion
C6_Witness ==
    /\ Done
    /\ Valid(input)
    /\ Fill(input) = {}
    /\ ret = NoValue
    /\ err = NoError

(***************************************************************************)
(* C7: the sequence solve() returns holds no grid twice; for a solved      *)
(* input it is that one grid, and for an input with exactly one completion *)
(* it has exactly one element.                                             *)
(***************************************************************************)
C7_NoDuplicates ==
    Done =>
        /\ ret.type = "array" =>
              \A i, j \in 1 .. Len(ret.value) :
                  i # j => heap[ret.value[i]] # heap[ret.value[j]]
        /\ IsSolvedGrid(input) =>
              ret.type = "array" /\ Len(ret.value) = 1 /\ heap[ret.value[1]] = input
        /\ Cardinality(Completions(input)) = 1 =>
              ret.type = "array" /\ Len(ret.value) = 1

\* solve() has returned the one completion of an input with empty cells
C7_Witness ==
    /\ Done
    /\ ~Complete(input)
    /\ Cardinality(Completions(input)) = 1
    /\ ret.type = "array"
    /\ Len(ret.value) = 1

(***************************************************************************)
(* C8: the solution list only grows, and every grid recorded in it stays   *)
(* as it was recorded, and solved, in every later step of the search.      *)
(***************************************************************************)
C8_SnapshotsKept ==
    [][/\ \A k \in 1 .. Len(solutions) :
              /\ k <= Len(solutions')
              /\ solutions'[k] = solutions[k]
              /\ heap'[solutions[k]] = heap[solutions[k]]
       /\ \A k \in 1 .. Len(solutions') : IsSolvedGrid(heap'[solutions'[k]])]_vars

\* the outermost call has returned: two grids are recorded and the working
\* grid is back to the input
C8_Witness ==
    /\ pc = "return"
    /\ Len(solutions) >= 2
    /\ heap[work] = input
    /\ \A k \in 1 .. Len(solutions) : heap[solutions[k]] # heap[work]

(***************************************************************************)
(* C9: candidates(x, y) is the empty list for a nonzero cell, and for an   *)
(* empty cell the ascending list of exactly the values 1..9 that occur in  *)
(* none of its row, column and box, on the board as it is at the call:     *)
(* the caller's board after any edits, and the working board at every      *)
(* point of the search, where the candidates a backtrack call has just     *)
(* taken for its open cell are those of the board it is on.                *)
(***************************************************************************)
IsAscendingListOf(list, S) ==
    /\ \A i, j \in 1 .. Len(list) : i < j => list[i] < list[j]
    /\ {list[i] : i \in 1 .. Len(list)} = S

CandidatesAsStated(b) ==
    \A c \in Cells :
        LET r == candidates(b, c[1], c[2])
        IN  /\ r.error = NoError
            /\ IF At(b, c) # 0 THEN r.value = << >>
               ELSE IsAscendingListOf(r.value, Legal(b, c))

C9_Candidates ==
    /\ CandidatesAsStated(heap[This])
    /\ work # NoRef => CandidatesAsStated(heap[work])
    /\ pc = "forEach" /\ Top.k = 1 =>
          IsAscendingListOf(Top.cands, Legal(heap[work], << Top.x, Top.y >>))

\* a nested backtrack call has taken several candidates for its open cell
\* from a working board that earlier trials have written to
C9_Witness ==
    /\ pc = "forEach"
    /\ Top.k = 1
    /\ Len(stack) >= 2
    /\ Len(Top.cands) >= 2
    /\ heap[work] # input

(***************************************************************************)
(* C10: the accessors' errors.  A call of get, set, delete or candidates   *)
(* with x or y outside [0,8] fails with the out-of-bounds error; a failing *)
(* call leaves every cell as it was; a successful set or delete changes    *)
(* the addressed cell only.  As claimed, set fails with the value error    *)
(* whenever the value is outside [0,9]; as amended, whenever the value is  *)
(* outside [0,9] and x and y are inside [0,8], the position being checked  *)
(* first.                                                                  *)
(***************************************************************************)
OnlyCellChanged(x, y) ==
    \A c \in Cells : c # << x, y >> => At(heap'[This], c) = At(heap[This], c)

AccessorStep(x, y) ==
    /\ outside(x, y) => err' = OutOfBounds
    /\ err' # NoError => heap' = heap
    /\ err' = NoError => OnlyCellChanged(x, y)

\* C10 as claimed
C10_Original ==
    [][\A c \in CellInputs :
          /\ CallGet(c[1], c[2]) \/ CallDelete(c[1], c[2]) \/ CallCandidates(c[1], c[2])
                => AccessorStep(c[1], c[2])
          /\ \A value \in ValueInputs :
                CallSet(c[1], c[2], value) =>
                    /\ AccessorStep(c[1], c[2])
                    /\ value < 0 \/ value > 9 => err' = ValueError]_vars

\* C10 as amended
C10_Accessors ==
    [][\A c \in CellInputs :
          /\ CallGet(c[1], c[2]) \/ CallDelete(c[1], c[2]) \/ CallCandidates(c[1], c[2])
                => AccessorStep(c[1], c[2])
          /\ \A value \in ValueInputs :
                CallSet(c[1], c[2], value) =>
                    /\ AccessorStep(c[1], c[2])
                    /\ (value < 0 \/ value > 9) /\ ~outside(c[1], c[2])
                          => err' = ValueError]_vars

\* a set call has failed with the value error on a grid that edits have changed
C10_Witness ==
    /\ pc = "idle"
    /\ err = ValueError
    /\ heap[This] # original

(***************************************************************************)
(* C11: construction from an array of arrays fails with the structure      *)
(* error when the array is not 9 rows of 9 cells, with the value error     *)
(* when it is 9 rows of 9 cells and a cell is outside [0,9], and otherwise *)
(* succeeds with exactly the cells given.                                  *)
(***************************************************************************)
NineByNine(given) == Len(given) = 9 /\ \A r \in 1 .. Len(given) : Len(given[r]) = 9

CellsInRange(given) ==
    \A r \in 1 .. Len(given) : \A c \in 1 .. Len(given[r]) : given[r][c] \in 0 .. 9

C11_Construction ==
    [][\A given \in MatrixInputs :
          New(Array(given)) =>
              /\ ~NineByNine(given) => err' = TypeError9x9 /\ heap' = heap
              /\ NineByNine(given) /\ ~CellsInRange(given) =>
                    err' = CellError /\ heap' = heap
              /\ NineByNine(given) /\ CellsInRange(given) =>
                    /\ err' = NoError
                    /\ \A c \in Cells : At(heap'[This], c) = given[c[2] + 1][c[1] + 1]]_vars

\* the construction has failed with the value error
C11_Witness == pc = "done" /\ err = CellError /\ heap = << >>

(***************************************************************************)
(* C12: the text format.  A text of 9 lines of 9 characters each, whatever *)
(* the characters in the cell positions (digits, spaces, letters or        *)
(* symbols, as in the README example), is accepted as a 9x9 puzzle, in     *)
(* which a space is the cell 0 and a digit is the cell of that digit.      *)
(***************************************************************************)
NineLinesOfNine(text) ==
    /\ Len(text) = 9 * 10 - 1
    /\ \A i \in 1 .. Len(text) : charAt(text, i) = NewLine <=> i % 10 = 0

C12_TextFormat ==
    [][\A text \in TextInputs :
          New(String(text)) /\ NineLinesOfNine(text) =>
              /\ err' = NoError
              /\ \A c \in Cells :
                    LET ch == charAt(text, c[2] * 10 + c[1] + 1)
                    IN  /\ ch = " " => At(heap'[This], c) = 0
                        /\ isDigit(ch) => At(heap'[This], c) = Number(ch)]_vars

(***************************************************************************)
(* C13: the "no open cell" exit of the search is never taken.  Whenever a  *)
(* backtrack call is past its two guards (the working grid is okay and not *)
(* solved), the grid has an empty cell and the cell selected is one: its   *)
(* coordinates are in 0..8, never -1.                                      *)
(***************************************************************************)
PastGuards == pc = "backtrack" /\ okay(heap[work]) /\ ~solved(heap[work])

C13_OpenCellFound ==
    PastGuards =>
        /\ \E c \in Cells : At(heap[work], c) = 0
        /\ nextOpenCell(heap[work])[1] # -1
        /\ nextOpenCell(heap[work])[2] # -1
        /\ nextOpenCell(heap[work]) \in Cells
        /\ At(heap[work], nextOpenCell(heap[work])) = 0

\* a nested backtrack call is past its guards
C13_Witness == PastGuards /\ Len(stack) >= 2

(***************************************************************************)
(* The rules as they ran in a trial.  Right after a trial has called       *)
(* backtrack, the frame of the forEach holds the board the trial began on  *)
(* (before), the open cell, the undo log and the board at the call; the    *)
(* runs are the four rules applied in their order from that board, each    *)
(* with the board it was given, the board it left and the list it returned.*)
(***************************************************************************)
AfterTrial == pc = "backtrack" /\ stack # << >>

Pivot == << Top.x, Top.y >>

Run(n, b) ==
    LET r == CASE n = 1 -> rule1(b, Top.x, Top.y)
               [] n = 2 -> rule2(b, Top.x, Top.y)
               [] n = 3 -> rule3(b, Top.x, Top.y)
               [] n = 4 -> rule4(b, Top.x, Top.y)
    IN  [rule |-> n, before |-> b, after |-> r.board, modified |-> r.modified,
         error |-> r.error]

RuleRuns ==
    LET r1 == Run(1, Top.before)
        r2 == Run(2, r1.after)
        r3 == Run(3, r2.after)
        r4 == Run(4, r3.after)
    IN  << r1, r2, r3, r4 >>

\* The cells of a list, as a set.
CellsOf(list) == {list[k] : k \in 1 .. Len(list)}

(***************************************************************************)
(* C14: the rules never guess.  Every value a rule assigns is forced by    *)
(* the grid just before the assignment: every valid completion of that     *)
(* grid has that value in that cell.  Every assignment of a trial is to a  *)
(* cell that was empty when the trial began and no cell is assigned twice, *)
(* so the grid before each assignment extends the grid the trial began on  *)
(* and its completions are among the completions of that grid: these are   *)
(* taken once and compared on every cell the rules wrote.                  *)
(***************************************************************************)
C14_NeverGuess ==
    AfterTrial =>
        \A runs \in {RuleRuns} :
            /\ \A n \in 1 .. 4 : \A k \in 1 .. Len(runs[n].modified) :
                  /\ At(Top.before, runs[n].modified[k]) = 0
                  /\ At(runs[n].before, runs[n].modified[k]) = 0
                  /\ \A m \in 1 .. Len(runs[n].modified) :
                        m # k => runs[n].modified[m] # runs[n].modified[k]
            /\ runs[4].after # Top.before =>
                  \A g \in Completions(Top.before) :
                      \A n \in 1 .. 4 : \A k \in 1 .. Len(runs[n].modified) :
                          At(g, runs[n].modified[k])
                              = At(runs[n].after, runs[n].modified[k])

\* a rule has filled cells of a grid that has a completion
C14_Witness ==
    /\ AfterTrial
    /\ \E run \in CellsOf(RuleRuns) :
          /\ run.rule = 4
          /\ Len(run.modified) >= 2
          /\ Completions(run.before) # {}


(***************************************************************************)
(* The scan of the cells after the open cell in row-major order: the cells *)
(* of row i from column j on, then all nine cells of every row below.  A   *)
(* cell is filled when the values legal for it on the grid as it is when   *)
(* the cell is examined number exactly one.                                *)
(***************************************************************************)
RECURSIVE ScanColumns(_, _, _)
ScanColumns(st, i, j) ==
    IF j >= 9 THEN st
    ELSE LET c == << j, i >>
             legal == IF At(st.board, c) = 0 THEN Legal(st.board, c) ELSE {}
         IN  IF Cardinality(legal) # 1 THEN ScanColumns(st, i, j + 1)
             ELSE ScanColumns(
                      [board |-> [st.board EXCEPT ![i][j] = CHOOSE v \in legal : TRUE],
                       modified |-> Append(st.modified, c)],
                      i, j + 1)

RECURSIVE ScanRowsBelow(_, _)
ScanRowsBelow(st, i) ==
    IF i >= 9 THEN st
    ELSE ScanRowsBelow(ScanColumns(st, i, 0), i + 1)

RowMajorScan(b, x, y) ==
    ScanRowsBelow(ScanColumns([board |-> b, modified |-> << >>], y, x + 1), y + 1)

(***************************************************************************)
(* C15: rule 1, called with the open cell (x, y), examines in row-major    *)
(* order every cell after it, the cells of row y with column > x and all   *)
(* nine cells of every row below y, and fills each examined cell whose     *)
(* candidates on the live grid number exactly one: the grid it leaves and  *)
(* the list it returns are those of the row-major scan.                    *)
(***************************************************************************)
C15_RowMajorScan ==
    AfterTrial =>
        \A run \in {Run(1, Top.before)} :
            \A scan \in {RowMajorScan(Top.before, Top.x, Top.y)} :
                /\ run.error = NoError
                /\ run.after = scan.board
                /\ run.modified = scan.modified


\* The cells on which two grids differ.
Changed(g, h) == {c \in Cells : At(g, c) # At(h, c)}

(***************************************************************************)
(* C16: each of rules 1-4 writes only to cells that are empty at the       *)
(* moment it writes them (empty on the grid the rule was given and not     *)
(* written earlier by the same call), and the list it returns holds        *)
(* exactly the cells it wrote.  So the undo log of a trial, the open cell  *)
(* followed by the four lists, holds every cell changed in the trial       *)
(* before the recursive call and no cell that was nonzero when the trial   *)
(* began.                                                                  *)
(***************************************************************************)
C16_UndoLogExact ==
    AfterTrial =>
        \A runs \in {RuleRuns} :
            /\ \A n \in 1 .. 4 :
                  /\ runs[n].error = NoError
                  /\ Changed(runs[n].before, runs[n].after) = CellsOf(runs[n].modified)
                  /\ \A k \in 1 .. Len(runs[n].modified) :
                        /\ At(runs[n].before, runs[n].modified[k]) = 0
                        /\ \A m \in 1 .. k - 1 :
                              runs[n].modified[m] # runs[n].modified[k]
            /\ Top.modified = << Pivot >> \o runs[1].modified \o runs[2].modified
                                  \o runs[3].modified \o runs[4].modified
            /\ Changed(Top.before, Top.atCall) \subseteq CellsOf(Top.modified)
            /\ \A c \in CellsOf(Top.modified) : At(Top.before, c) = 0

\* a trial in which rules filled several cells, one of them the open cell
C16_Witness ==
    /\ AfterTrial
    /\ Len(Top.modified) >= 4
    /\ \E k \in 2 .. Len(Top.modified) : Top.modified[k] = Pivot


\* The place of a cell in row-major order: rows top to bottom, then columns
\* left to right.
RowMajor(c) == N * c[2] + c[1]

FirstEmpty(g, c) ==
    /\ c \in Cells
    /\ At(g, c) = 0
    /\ \A d \in Cells : At(g, d) = 0 => RowMajor(c) <= RowMajor(d)

(***************************************************************************)
(* C17: the open cell selected at each recursive step is the first empty   *)
(* cell in row-major order of the grid the step works on, and every cell   *)
(* rules 1-4 write during a trial lies at or after it in row-major order:  *)
(* no cell before the open cell is written by a rule.                      *)
(***************************************************************************)
C17_PivotFirst ==
    /\ pc = "forEach" => FirstEmpty(heap[work], Pivot)
    /\ AfterTrial =>
          /\ FirstEmpty(Top.before, Pivot)
          /\ \A runs \in {RuleRuns} :
                \A n \in 1 .. 4 : \A k \in 1 .. Len(runs[n].modified) :
                    RowMajor(runs[n].modified[k]) >= RowMajor(Pivot)

\* a rule has written a cell of a row below the open cell, left of its column
C17_Witness ==
    /\ AfterTrial
    /\ \E run \in CellsOf(RuleRuns) : \E c \in CellsOf(run.modified) :
          c[2] > Top.y /\ c[1] < Top.x


(***************************************************************************)
(* Hidden singles, by sets.  The candidate set of a cell is empty for a    *)
(* filled cell and the legal values for an empty one.  In a group, taken   *)
(* on the grid as it is when the group is begun, a cell is given v when v  *)
(* is the only value in its candidate set that is in no other candidate    *)
(* set of the group; every other cell is left as it is.                    *)
(***************************************************************************)
GroupCells ==
    [n \in 2 .. 4 |-> [k \in Idx |->
        {c \in Cells : CASE n = 2 -> c[2] = k
                         [] n = 3 -> c[1] = k
                         [] n = 4 -> (c[2] \div B) * B + (c[1] \div B) = k}]]

BoxOf(c) == CHOOSE k \in Idx : c \in GroupCells[4][k]

CandidateSet(g, c) == IF At(g, c) = 0 THEN Legal(g, c) ELSE {}

\* The pairs << cell, v >> of a group with v in the cell's candidate set.
InCandidateSets(g, group) ==
    UNION {{<< c, v >> : v \in CandidateSet(g, c)} : c \in group}

\* Those of them whose v is in no other candidate set of the group.
OnlyHere(g, group) ==
    LET sets == InCandidateSets(g, group)
    IN  {w \in sets : \A p \in sets : p[2] = w[2] => p[1] = w[1]}

RECURSIVE Assign(_, _)
Assign(g, writes) ==
    IF writes = {} THEN g
    ELSE LET w == CHOOSE p \in writes : TRUE
         IN  Assign([g EXCEPT ![w[1][2]][w[1][1]] = w[2]], writes \ {w})

HiddenSingles(g, group) ==
    LET only == OnlyHere(g, group)
    IN  Assign(g, {w \in only : \A p \in only : p[1] = w[1] => p = w})

\* The groups first .. 8 processed in turn, each on the grid the one before left.
RECURSIVE GroupsFrom(_, _, _)
GroupsFrom(g, n, first) ==
    IF first >= 9 THEN g
    ELSE GroupsFrom(HiddenSingles(g, GroupCells[n][first]), n, first + 1)

(***************************************************************************)
(* C18: rule 2 processes each row i >= y, rule 3 each column j >= x and    *)
(* rule 4 each box from the box of the open cell through box 8; within a   *)
(* processed group a cell is assigned v exactly when v is the only value   *)
(* in that cell's candidate set and in no other candidate set of the       *)
(* group, the sets being those of the moment the group is begun; a cell    *)
(* with no such value or with two or more is left untouched.  The grid     *)
(* each rule leaves is the one so obtained, and its list holds the cells   *)
(* that were assigned.                                                     *)
(***************************************************************************)
C18_HiddenSingles ==
    AfterTrial =>
        \A runs \in {RuleRuns} :
            \A n \in 2 .. 4 :
                \A first \in {CASE n = 2 -> Top.y [] n = 3 -> Top.x [] n = 4 -> BoxOf(Pivot)} :
                    \A g \in {GroupsFrom(runs[n].before, n, first)} :
                        /\ runs[n].error = NoError
                        /\ runs[n].after = g
                        /\ CellsOf(runs[n].modified) = Changed(runs[n].before, g)

\* each of the three rules has assigned a cell in one trial
C18_Witness ==
    /\ AfterTrial
    /\ \A n \in 2 .. 4 : RuleRuns[n].modified # << >>


\* Each rule of a trial invoked a second time with the same open cell, on
\* the board its first invocation left.
SecondRuns ==
    LET runs == RuleRuns
    IN  << Run(1, runs[1].after), Run(2, runs[2].after),
           Run(3, runs[3].after), Run(4, runs[4].after) >>

(***************************************************************************)
(* C19 as stated: invoking the same rule a second time with the same open  *)
(* cell right after the first invocation writes no further cell and leaves *)
(* the grid as the first invocation left it.                               *)
(***************************************************************************)
C19_Idempotent ==
    AfterTrial =>
        \A again \in {SecondRuns} :
            \A n \in 1 .. 4 :
                /\ again[n].modified = << >>
                /\ again[n].after = again[n].before

(***************************************************************************)
(* C19 amended: each rule is a single pass.  A second invocation with the  *)
(* same open cell right after the first changes no cell that is nonzero    *)
(* after the first, so every cell the first one wrote keeps its value and  *)
(* is not listed again; the cells it writes, if any, are cells the first   *)
(* invocation left empty.                                                  *)
(***************************************************************************)
C19_SinglePass ==
    AfterTrial =>
        \A runs \in {RuleRuns} : \A again \in {SecondRuns} :
            \A n \in 1 .. 4 :
                /\ again[n].error = NoError
                /\ again[n].before = runs[n].after
                /\ \A c \in Cells :
                      At(runs[n].after, c) # 0 =>
                          At(again[n].after, c) = At(runs[n].after, c)
                /\ CellsOf(again[n].modified) \cap CellsOf(runs[n].modified) = {}
                /\ CellsOf(again[n].modified) = Changed(runs[n].after, again[n].after)

\* a rule that wrote a cell writes a further cell when invoked again
C19_Witness ==
    /\ AfterTrial
    /\ \E n \in 1 .. 4 :
          /\ RuleRuns[n].modified # << >>
          /\ SecondRuns[n].modified # << >>


(***************************************************************************)
(* C20: the rules preserve validity.  The grid a trial begins on is valid, *)
(* and the grid each of rules 1-4 leaves is valid: every value a rule has  *)
(* written is in no other cell of the written cell's row, column and box   *)
(* on the grid the rule leaves, hence was in none of them at the moment it *)
(* was written, the rule having only filled cells since.  This covers a    *)
(* pass of a hidden-single rule that fills several cells of one group from *)
(* candidate sets taken once.  After the rules only the open cell is       *)
(* assigned, so the grid at the recursive call differs from a valid grid   *)
(* in that cell alone.                                                     *)
(***************************************************************************)
C20_ValidityKept ==
    AfterTrial =>
        \A runs \in {RuleRuns} :
            /\ Valid(Top.before)
            /\ \A n \in 1 .. 4 :
                  /\ Valid(runs[n].after)
                  /\ \A c \in CellsOf(runs[n].modified) :
                        /\ At(runs[n].after, c) \in 1 .. 9
                        /\ \A d \in PeersOf[c] : At(runs[n].after, d) # At(runs[n].after, c)
            /\ Changed(runs[4].after, Top.atCall) \subseteq {Pivot}

\* one pass of a hidden-single rule has filled two cells of the same group
C20_Witness ==
    /\ AfterTrial
    /\ \E n \in 2 .. 4 : \E c, d \in CellsOf(RuleRuns[n].modified) :
          /\ c # d
          /\ \E k \in Idx : c \in GroupCells[n][k] /\ d \in GroupCells[n][k]


\* The number of filled cells of a grid.
Filled(g) == Cardinality({c \in Cells : At(g, c) # 0})

\* The number of backtrack calls that have been entered and have not
\* returned: one per forEach in progress, and the call that is at its guards.
Depth ==
    CASE pc = "backtrack" -> Len(stack) + 1
      [] pc \in {"forEach", "undo"} -> Len(stack)
      [] OTHER -> 0

\* The grid each nested call was entered with has strictly more filled
\* cells than the grid its caller was entered with.  The grid a call was
\* entered with is the one each of its trials begins on (before); the grid
\* its nested call is entered with is the one at the call (atCall).
DeeperIsFuller ==
    /\ pc = "backtrack" => heap[work] = IF stack = << >> THEN input ELSE Top.atCall
    /\ \A k \in 1 .. Len(stack) :
          stack[k].before # NoBoard =>
              /\ stack[k].before = IF k = 1 THEN input ELSE stack[k - 1].atCall
              /\ Filled(stack[k].atCall) > Filled(stack[k].before)
    /\ \A k \in 1 .. Len(stack) - 1 : stack[k].before # NoBoard
    /\ Depth <= (N * N - Filled(input)) + 1

(***************************************************************************)
(* C21: solve() terminates.  Each nested backtrack call runs on a working  *)
(* grid with strictly more filled cells than at its caller's entry, so the *)
(* depth of the recursion never exceeds the number of empty cells of the   *)
(* input plus one; a call of solve() that has begun ends, and every        *)
(* backtrack call that is in its forEach at depth d returns to its caller. *)
(***************************************************************************)
C21_Terminates ==
    /\ [](Running => DeeperIsFuller)
    /\ (pc = "backtrack") ~> (pc = "done")
    /\ \A d \in 1 .. N * N :
          (pc = "forEach" /\ Len(stack) = d) ~> (pc = "done" \/ Len(stack) < d)

\* a call nested in a nested call has returned to its caller, all its
\* candidates tried
C21_Witness ==
    /\ pc = "undo"
    /\ Len(stack) >= 2
    /\ Top.k = Len(Top.cands)
    /\ Len(Top.cands) >= 2


InGrid(c) == c.x \in 0 .. 8 /\ c.y \in 0 .. 8

(***************************************************************************)
(* C22: the editor's cursor.  From (0, 0), after every key the cursor has  *)
(* 0 <= x <= 8 and 0 <= y <= 8, and the set or delete call of a number,    *)
(* space or backspace key does not fail.  Typing or moving right at column *)
(* 8 goes to column 0 of the next row, except in the last row, where the   *)
(* cursor stays at column 8; backspace or moving left at column 0 goes to  *)
(* column 8 of the row before, except in the first row, where it stays at  *)
(* column 0.                                                               *)
(***************************************************************************)
C22_Cursor ==
    [][\A key \in Keys, typed \in TypedValues :
          KeyPress(key, typed) =>
              /\ InGrid(cursor)
              /\ InGrid(cursor')
              /\ err' = NoError
              /\ pc' = "edit"
              /\ (key \in {"right", "number", "space"} /\ cursor.x = 8) =>
                    cursor' = IF cursor.y < 8 THEN Moved(0, cursor.y + 1)
                              ELSE Moved(8, 8)
              /\ (key \in {"left", "backspace"} /\ cursor.x = 0) =>
                    cursor' = IF cursor.y > 0 THEN Moved(8, cursor.y - 1)
                              ELSE Moved(0, 0)]_vars

\* a number has been typed in the last cell and the cursor has stayed on it
C22_Witness ==
    /\ pc = "edit"
    /\ cursor = Moved(8, 8)
    /\ heap[This][8][8] # 0

=============================================================================
